---------------------------- MODULE Spec2Model ----------------------------
(***************************************************************************)
(* tree-hoprs: the worktree lifecycle manager of src/src/main.rs.          *)
(*                                                                         *)
(* Strings are sequences of one-character strings, so that format!,        *)
(* str::contains, split_whitespace and the slicing of the branch field     *)
(* are computed as the code computes them.                                 *)
(*                                                                         *)
(* The state is the persisted Config (the JSON file), the directories on   *)
(* disk, the worktrees git has registered for each base working copy, and  *)
(* a record of the last invocation of the tool (what it was asked, which   *)
(* commands it ran, what it reported). procs holds two invocations that    *)
(* run at the same time, each with what it has loaded and how far it is;   *)
(* they stay idle where invocations run one after the other.               *)
(***************************************************************************)
EXTENDS Naturals, Sequences, FiniteSets, TLC

VARIABLES config, dirs, empties, trees, last, procs

vars == <<config, dirs, empties, trees, last, procs>>

---------------------------------------------------------------------------
(* Bounds of the model. *)

\* Most worktrees, beside the base working copies, that git has registered
\* over all repositories: a Create whose `git worktree add` would register
\* one more is not taken.
MaxTrees == 2

---------------------------------------------------------------------------
(* Strings. *)

sMain  == <<"m", "a", "i", "n">>
sTree  == <<"t", "r", "e", "e">>
sFx    == <<"f", "x">>
sGy    == <<"g", "y">>
sA     == <<"/", "a">>
sB     == <<"/", "b">>
sHash  == <<"0", "c", "7">>
sEmpty == <<>>

\* Option<String>::None of the command line.
None == "<none>"

\* Rust's usize Display, as format!("tree{}", n) prints it.
RECURSIVE Digits(_)
Digits(n) ==
    LET d == <<"0", "1", "2", "3", "4", "5", "6", "7", "8", "9">>
    IN  IF n < 10 THEN <<d[n + 1]>> ELSE Digits(n \div 10) \o <<d[(n % 10) + 1]>>

\* format!("{}/{}", a, b)
Join(a, b) == a \o <<"/">> \o b

\* str::contains: needle occurs as a contiguous substring of hay.
StrContains(hay, needle) ==
    \E i \in 0..Len(hay) :
        /\ i + Len(needle) <= Len(hay)
        /\ \A k \in 1..Len(needle) : hay[i + k] = needle[k]

IsSpace(c) == c \in {" ", "\t"}

\* str::split_whitespace: the maximal runs of non-whitespace, in order.
RECURSIVE SplitFrom(_, _, _)
SplitFrom(s, i, cur) ==
    IF i > Len(s)
    THEN IF cur = <<>> THEN <<>> ELSE <<cur>>
    ELSE IF IsSpace(s[i])
         THEN IF cur = <<>>
              THEN SplitFrom(s, i + 1, <<>>)
              ELSE <<cur>> \o SplitFrom(s, i + 1, <<>>)
         ELSE SplitFrom(s, i + 1, Append(cur, s[i]))

split_whitespace(s) == SplitFrom(s, 1, <<>>)

\* &s[1..s.len() - 1]
StripEnds(s) == SubSeq(s, 2, Len(s) - 1)

\* Vec::contains
VecContains(v, x) == \E i \in 1..Len(v) : v[i] = x

\* Vec::remove(0)
RemoveFirst(v) == SubSeq(v, 2, Len(v))

---------------------------------------------------------------------------
(* Names and inputs. *)

RepoNames == {"A", "X"}

\* The branch names given on the command line: a feature branch and the name
\* of the base branch.
Branches == {sFx, sMain}

\* The -b, -p and -r options of one invocation; "" and None when not given.
Cli(b, p, r) == [base_branch |-> b, base_path |-> p, repo |-> r]

\* No option; -r X; -b main -p /b -r X.
Clis == {Cli(sEmpty, sEmpty, None), Cli(sEmpty, sEmpty, "X"), Cli(sMain, sB, "X")}

\* The answers to the subprocesses of one invocation, in the order they are
\* run: "nospawn" when the subprocess could not be spawned, "ok" when it
\* ended with status 0, "fail" when it ended with a non-zero status. The
\* exit status of pull, branch and list is dropped by the code, and nothing
\* runs after a failed spawn, so one answer per distinguishable run.
Run(a, b, c) == [pull |-> a, branch |-> b, tree |-> c]

Runs ==
    {Run("nospawn", "ok", "ok"), Run("ok", "nospawn", "ok"), Run("ok", "ok", "nospawn"),
     Run("ok", "ok", "ok"), Run("ok", "ok", "fail")}

Spawns == {"nospawn", "ok"}

MainOf(bp) == Join(bp, sMain)

---------------------------------------------------------------------------
(* The persisted Config and the values main() hands to the operations. *)

\* struct RepoConfig
RepoConfig(bt, bp, it) == [base_tree |-> bt, base_path |-> bp, inactive_trees |-> it]

\* HashMap::insert
MapInsert(m, k, v) == [x \in (DOMAIN m) \cup {k} |-> IF x = k THEN v ELSE m[x]]

\* get_values_from_config_file: the RepoConfig of the repository named with
\* -r, or of the active repository; unwrap() panics when the key is absent.
get_values_from_config_file(cfg, repo) ==
    LET key == IF repo = None THEN cfg.active_repo ELSE repo
    IN  IF key \in DOMAIN cfg.repo
        THEN [panic |-> FALSE, values |-> cfg.repo[key]]
        ELSE [panic |-> TRUE, values |-> RepoConfig(sEmpty, sEmpty, <<>>)]

\* main(), up to the dispatch: the values come from the command line alone
\* when -b, -p and -r are all given, and from the config file otherwise (the
\* file exists and parses: the first-run set-up is not part of the model).
Resolve(cfg, cli) ==
    LET values == RepoConfig(cli.base_branch, cli.base_path, <<>>)
    IN  IF values.base_tree = sEmpty \/ values.base_path = sEmpty \/ cli.repo = None
        THEN get_values_from_config_file(cfg, cli.repo)
        ELSE [panic |-> FALSE, values |-> values]

\* format!("{}/{}", values.base_path, values.base_tree)
BaseDir(values) == Join(values.base_path, values.base_tree)

---------------------------------------------------------------------------
(* git and the file system, as the tool observes them. *)

\* The base working copy whose repository has a worktree at path p, or
\* sEmpty when p is not a worktree of any repository.
RepoOf(tr, p) ==
    IF \E m \in DOMAIN tr : \E i \in 1..Len(tr[m]) : tr[m][i].path = p
    THEN CHOOSE m \in DOMAIN tr : \E i \in 1..Len(tr[m]) : tr[m][i].path = p
    ELSE sEmpty

\* One line of `git worktree list`: path, commit, [branch].
ListLine(w) == w.path \o <<" ", " ">> \o sHash \o <<" ">> \o <<"[">> \o w.branch \o <<"]">>

\* stdout of `git worktree list` run in cwd (empty when cwd is no repository).
WorktreeListOutput(tr, cwd) ==
    LET m == RepoOf(tr, cwd)
    IN  IF m = sEmpty THEN <<>> ELSE [i \in 1..Len(tr[m]) |-> ListLine(tr[m][i])]

\* CanSpawn without the answer of the operating system.
CanSpawnAlways(ds, cwd, outcome) == cwd \in ds

\* A subprocess with current_dir(cwd) can be spawned only when cwd exists.
CanSpawn(ds, cwd, outcome) == cwd \in ds /\ outcome # "nospawn"

\* The directories directly under bp: the entries fs::read_dir(bp) yields
\* that pass the is_dir filter.
IsChildOf(bp, d) ==
    /\ Len(d) > Len(bp) + 1
    /\ SubSeq(d, 1, Len(bp) + 1) = bp \o <<"/">>
    /\ \A k \in (Len(bp) + 2)..Len(d) : d[k] # "/"

\* DirCount counting base_path itself in place of the directories under it.
DirCountOne(ds, bp) == Cardinality({d \in ds : d = bp})

DirCount(ds, bp) == Cardinality({d \in ds : IsChildOf(bp, d)})

\* The worktrees registered beside the base working copies.
TreeCount(tr) ==
    Cardinality(UNION {{tr[m][i].path : i \in 2..Len(tr[m])} : m \in DOMAIN tr})

\* A branch is checked out in a worktree other than the one at path p.
CheckedOutElsewhere(tr, m, branch, p) ==
    \E i \in 1..Len(tr[m]) : tr[m][i].branch = branch /\ tr[m][i].path # p

\* One executed subprocess: its working directory, its git subcommand and
\* arguments, and its exit status where the model follows it ("-" for pull,
\* branch and list, whose status changes nothing here).
Cmd(cwd, sub, path, branch, status) ==
    [cwd |-> cwd, sub |-> sub, path |-> path, branch |-> branch, status |-> status]

\* What the last invocation was and did.
Rec(op, cli, branch, dry, result, msg, path, cmds, out) ==
    [op |-> op, cli |-> cli, branch |-> branch, dry |-> dry, result |-> result,
     msg |-> msg, path |-> path, cmds |-> cmds, out |-> out]

NoCli == Cli(sEmpty, sEmpty, None)

---------------------------------------------------------------------------
(* Initial states: a valid Config with two repositories, A active, whose   *)
(* inactive_trees name registered worktrees; and what earlier use left on  *)
(* disk under each base path.                                              *)

Wt(p, b) == [path |-> p, branch |-> b]

\* Two invocations of the tool, and each one's local state: where it is in
\* main() and create_worktree, its branch argument, the values it loaded,
\* the path and command it built, the status git gave, the config it read
\* back.
Procs == {1, 2}

Proc(pc, branch, values, path, cmd, st, reloaded) ==
    [pc |-> pc, branch |-> branch, values |-> values, path |-> path, cmd |-> cmd,
     st |-> st, reloaded |-> reloaded]

Idle == Proc("idle", sEmpty, RepoConfig(sEmpty, sEmpty, <<>>), sEmpty,
             Cmd(sEmpty, "", sEmpty, sEmpty, "-"), "-", <<>>)

NoProcs == [p \in Procs |-> Idle]

\* /a holds the base working copy only; or also the worktree tree2 (tree1
\* was removed in the past); or also an empty directory tree2 that is no
\* worktree. /b holds the base working copy and the worktree tree1.
EnvsA == {"clean", "gap", "emptydir"}
EnvsB == {"used"}

ExtraA(e) ==
    IF e = "gap" THEN <<Wt(Join(sA, sTree \o Digits(2)), sGy)>>
    ELSE <<>>

ExtraB(e) == IF e = "used" THEN <<Wt(Join(sB, sTree \o Digits(1)), sFx)>> ELSE <<>>

Paths(ws) == {ws[i].path : i \in 1..Len(ws)}

InitialInactive(extra) == {<<>>} \cup {<<extra[i].path>> : i \in 1..Len(extra)}

Init ==
    \E ea \in EnvsA, eb \in EnvsB :
      \E ia \in InitialInactive(ExtraA(ea)), ix \in InitialInactive(ExtraB(eb)) :
        /\ config = [repo |-> [n \in RepoNames |->
                                 IF n = "A" THEN RepoConfig(sMain, sA, ia)
                                            ELSE RepoConfig(sMain, sB, ix)],
                     active_repo |-> "A"]
        /\ trees = [m \in {MainOf(sA), MainOf(sB)} |->
                       IF m = MainOf(sA) THEN <<Wt(MainOf(sA), sMain)>> \o ExtraA(ea)
                                         ELSE <<Wt(MainOf(sB), sMain)>> \o ExtraB(eb)]
        /\ empties = IF ea = "emptydir" THEN {Join(sA, sTree \o Digits(2))} ELSE {}
        /\ dirs = {sA, sB, MainOf(sA), MainOf(sB)} \cup Paths(ExtraA(ea))
                     \cup Paths(ExtraB(eb))
                     \cup (IF ea = "emptydir" THEN {Join(sA, sTree \o Digits(2))} ELSE {})
        /\ last = Rec("none", NoCli, sEmpty, FALSE, "none", "none", sEmpty, <<>>, <<>>)
        /\ procs = NoProcs

---------------------------------------------------------------------------
(* update_main_worktree *)

UpdateResult(values, cli, dry, o) ==
    LET cwd == BaseDir(values)
    IN  IF dry
        THEN Rec("update", cli, sEmpty, dry, "ok", "would_run", sEmpty, <<>>, <<>>)
        ELSE IF ~CanSpawn(dirs, cwd, o)
        THEN Rec("update", cli, sEmpty, dry, "err", "spawn", sEmpty, <<>>, <<>>)
        ELSE Rec("update", cli, sEmpty, dry, "ok", "done", sEmpty,
                 <<Cmd(cwd, "pull", sEmpty, sEmpty, "-")>>, <<>>)

Update ==
    /\ UNCHANGED procs
    /\ \E cli \in Clis, dry \in BOOLEAN, o \in Spawns :
        \E r \in {Resolve(config, cli)} :
            /\ last' = IF r.panic
                       THEN Rec("update", cli, sEmpty, dry, "panic", "unwrap", sEmpty, <<>>, <<>>)
                       ELSE UpdateResult(r.values, cli, dry, o)
            /\ UNCHANGED <<config, dirs, empties, trees>>

---------------------------------------------------------------------------
(* create_worktree *)

\* ChoosePath with tree1 for every fresh slot.
ChoosePathFirstTree(values, ds) ==
    IF values.inactive_trees # <<>>
    THEN values.inactive_trees[1]
    ELSE Join(values.base_path, sTree \o Digits(1))

\* Slot selection: the first inactive tree, or base_path/tree<N> with N the
\* number of directories under base_path.
ChoosePath(values, ds) ==
    IF values.inactive_trees # <<>>
    THEN values.inactive_trees[1]
    ELSE Join(values.base_path, sTree \o Digits(DirCount(ds, values.base_path)))

\* WorktreeCmd without the look at the chosen path.
WorktreeCmdAlwaysAdd(values, path, branch, ds, em) ==
    Cmd(BaseDir(values), "worktree add", path, branch, "-")

\* The materialization command: a switch inside the chosen path when it is
\* a directory with entries, `git worktree add` from the base working copy
\* when read_dir of the path fails, and git with no arguments when the path
\* is an empty directory.
WorktreeCmd(values, path, branch, ds, em) ==
    IF path \in ds
    THEN IF path \notin em
         THEN Cmd(path, "switch", sEmpty, branch, "-")
         ELSE Cmd(BaseDir(values), "", sEmpty, sEmpty, "-")
    ELSE Cmd(BaseDir(values), "worktree add", path, branch, "-")

\* The exit status git gives the materialization command when it answers o:
\* it refuses a branch that is checked out in another worktree, a working
\* directory outside any repository, and a call without a subcommand.
GitStatus(tr, cmd, o) ==
    LET m == RepoOf(tr, cmd.cwd)
    IN  IF /\ o = "ok"
           /\ cmd.sub # ""
           /\ m # sEmpty
           /\ ~CheckedOutElsewhere(tr, m, cmd.branch,
                                   IF cmd.sub = "switch" THEN cmd.cwd ELSE cmd.path)
        THEN "ok" ELSE "fail"

\* The worktrees after the command ended with status st.
GitEffect(tr, cmd, st) ==
    LET m == RepoOf(tr, cmd.cwd)
    IN  IF st # "ok" THEN tr
        ELSE IF cmd.sub = "worktree add"
        THEN [tr EXCEPT ![m] = Append(@, Wt(cmd.path, cmd.branch))]
        ELSE [tr EXCEPT ![m] = [i \in 1..Len(@) |->
                                 IF @[i].path = cmd.cwd THEN Wt(cmd.cwd, cmd.branch)
                                                        ELSE @[i]]]

\* CreatePersist without the dry-run test.
CreatePersistIgnoresDry(cfg, values, path, dry) ==
    IF VecContains(values.inactive_trees, path)
    THEN [cfg EXCEPT !.repo = MapInsert(@, cfg.active_repo,
                [values EXCEPT !.inactive_trees = RemoveFirst(@)])]
    ELSE cfg

\* Lines 303-316, the config side: outside dry-run, when the chosen path is
\* one of the inactive trees, the first inactive tree is removed and the
\* values are written under the active repository's key of the config read
\* back from the file. The exit status of the command is not looked at.
CreatePersist(cfg, values, path, dry) ==
    IF ~dry /\ VecContains(values.inactive_trees, path)
    THEN [cfg EXCEPT !.repo = MapInsert(@, cfg.active_repo,
                                        [values EXCEPT !.inactive_trees = RemoveFirst(@)])]
    ELSE cfg

\* The whole of create_worktree: the new config, worktrees, directories and
\* the record of the call.
CreateResult(cfg, ds, em, tr, values, cli, branch, dry, run) ==
    LET cwd  == BaseDir(values)
        same(rec) == [config |-> cfg, dirs |-> ds, trees |-> tr, last |-> rec]
        pull == Cmd(cwd, "pull", sEmpty, sEmpty, "-")
        br   == Cmd(cwd, "branch", sEmpty, branch, "-")
        pre  == IF dry THEN <<pull>> ELSE <<pull, br>>
    IN  IF ~CanSpawn(ds, cwd, run.pull)
        THEN same(Rec("create", cli, branch, dry, "err", "spawn", sEmpty, <<>>, <<>>))
        ELSE IF ~dry /\ ~CanSpawn(ds, cwd, run.branch)
        THEN same(Rec("create", cli, branch, dry, "err", "spawn", sEmpty, <<pull>>, <<>>))
        ELSE IF values.inactive_trees = <<>> /\ values.base_path \notin ds
        THEN same(Rec("create", cli, branch, dry, "err", "read_dir", sEmpty, pre, <<>>))
        ELSE
        LET path == ChoosePath(values, ds)
            cmd  == WorktreeCmd(values, path, branch, ds, em)
        IN  IF ~dry /\ ~CanSpawn(ds, cmd.cwd, run.tree)
            THEN same(Rec("create", cli, branch, dry, "err", "spawn", path, pre, <<>>))
            ELSE
            \* In dry-run the command is printed, not run ("-").
            LET st == IF dry THEN "-" ELSE GitStatus(tr, cmd, run.tree)
            IN  [config |-> CreatePersist(cfg, values, path, dry),
                 dirs   |-> IF st = "ok" /\ cmd.sub = "worktree add"
                            THEN ds \cup {path} ELSE ds,
                 trees  |-> GitEffect(tr, cmd, st),
                 last   |-> Rec("create", cli, branch, dry, "ok",
                                IF dry THEN "would_create" ELSE "created", path,
                                IF dry THEN pre ELSE Append(pre, [cmd EXCEPT !.status = st]),
                                <<>>)]

Create ==
    /\ UNCHANGED procs
    /\ \E cli \in Clis, branch \in Branches, dry \in BOOLEAN, run \in Runs :
        \E r \in {Resolve(config, cli)} :
            IF r.panic
            THEN /\ last' = Rec("create", cli, branch, dry, "panic", "unwrap",
                                sEmpty, <<>>, <<>>)
                 /\ UNCHANGED <<config, dirs, empties, trees>>
            ELSE \E res \in {CreateResult(config, dirs, empties, trees, r.values,
                                         cli, branch, dry, run)} :
                     /\ TreeCount(res.trees) <= MaxTrees
                     /\ config' = res.config
                     /\ dirs' = res.dirs
                     /\ trees' = res.trees
                     /\ last' = res.last
                     /\ UNCHANGED empties

---------------------------------------------------------------------------
(* delete_worktree (Archive) *)

\* FindLine without the test on the branch name.
FindLineAny(lines, branch) == IF lines = <<>> THEN <<>> ELSE lines[1]

\* Iterator::find: the first line that contains the branch name, or <<>>.
FindLine(lines, branch) ==
    IF \E i \in 1..Len(lines) : StrContains(lines[i], branch)
    THEN lines[CHOOSE i \in 1..Len(lines) :
                   /\ StrContains(lines[i], branch)
                   /\ \A j \in 1..(i - 1) : ~StrContains(lines[j], branch)]
    ELSE <<>>

\* AlreadyInactive without the lookup.
AlreadyInactiveNever(cfg, path) == FALSE

\* Lines 372-379: the path is looked up in the inactive trees of the active
\* repository of the config read back from the file.
AlreadyInactive(cfg, path) ==
    VecContains(cfg.repo[cfg.active_repo].inactive_trees, path)

\* ArchivePersist writing the inactive trees alone into the active
\* repository's entry.
ArchivePersistInactiveOnly(cfg, values, path) ==
    [cfg EXCEPT !.repo[cfg.active_repo].inactive_trees = Append(values.inactive_trees, path)]

\* Lines 389-392: the path is pushed on the caller's values, which are
\* written under the active repository's key of the reloaded config.
ArchivePersist(cfg, values, path) ==
    [cfg EXCEPT !.repo = MapInsert(@, cfg.active_repo,
                                   [values EXCEPT !.inactive_trees = Append(@, path)])]

\* The whole of delete_worktree: the new config and the record of the call.
ArchiveResult(cfg, ds, tr, values, cli, branch, dry, o) ==
    LET cwd  == BaseDir(values)
        list == <<Cmd(cwd, "worktree list", sEmpty, sEmpty, "-")>>
        same(rec) == [config |-> cfg, last |-> rec]
    IN  IF ~CanSpawn(ds, cwd, o)
        THEN same(Rec("archive", cli, branch, dry, "err", "spawn", sEmpty, <<>>, <<>>))
        ELSE
        LET line == FindLine(WorktreeListOutput(tr, cwd), branch)
        IN  IF line = <<>>
            THEN same(Rec("archive", cli, branch, dry, "ok", "does_not_exist",
                          sEmpty, list, <<>>))
            ELSE
            LET worktree_path == split_whitespace(line)[1]
            IN  IF cfg.active_repo \notin DOMAIN cfg.repo
                THEN same(Rec("archive", cli, branch, dry, "panic", "unwrap",
                              worktree_path, list, <<>>))
                ELSE IF AlreadyInactive(cfg, worktree_path)
                THEN same(Rec("archive", cli, branch, dry, "ok", "already_inactive",
                              worktree_path, list, <<>>))
                ELSE IF dry
                THEN same(Rec("archive", cli, branch, dry, "ok", "would_archive",
                              worktree_path, list, <<>>))
                ELSE [config |-> ArchivePersist(cfg, values, worktree_path),
                      last   |-> Rec("archive", cli, branch, dry, "ok", "archived",
                                     worktree_path, list, <<>>)]

Archive ==
    /\ UNCHANGED procs
    /\ \E cli \in Clis, branch \in Branches, dry \in BOOLEAN, o \in Spawns :
        \E r \in {Resolve(config, cli)} :
            IF r.panic
            THEN /\ last' = Rec("archive", cli, branch, dry, "panic", "unwrap",
                                sEmpty, <<>>, <<>>)
                 /\ UNCHANGED <<config, dirs, empties, trees>>
            ELSE \E res \in {ArchiveResult(config, dirs, trees, r.values, cli, branch, dry, o)} :
                     /\ config' = res.config
                     /\ last' = res.last
                     /\ UNCHANGED <<dirs, empties, trees>>

---------------------------------------------------------------------------
(* list_worktrees *)

\* IsInactive looking at the line's third field.
IsInactiveByBranch(inactive, items) == VecContains(inactive, items[3])

\* Lines 335 and 346: the line's first field is one of the inactive trees.
IsInactive(inactive, items) == VecContains(inactive, items[1])

\* The rows printed for the lines from the i-th on: a line whose first field
\* is an inactive tree is skipped; raw prints the third field without its
\* first and last character, the table prints the first and third fields.
RECURSIVE ListRows(_, _, _, _)
ListRows(lines, i, inactive, raw) ==
    IF i > Len(lines) THEN <<>>
    ELSE LET items == split_whitespace(lines[i])
         IN  IF IsInactive(inactive, items)
             THEN ListRows(lines, i + 1, inactive, raw)
             ELSE <<IF raw THEN <<StripEnds(items[3])>> ELSE <<items[1], items[3]>>>>
                      \o ListRows(lines, i + 1, inactive, raw)

ListResult(ds, tr, values, cli, raw, o) ==
    LET cwd == BaseDir(values)
        fmt == IF raw THEN "raw" ELSE "table"
    IN  IF ~CanSpawn(ds, cwd, o)
        THEN Rec("list", cli, sEmpty, FALSE, "err", "spawn", sEmpty, <<>>, <<>>)
        ELSE Rec("list", cli, sEmpty, FALSE, "ok", fmt, sEmpty,
                 <<Cmd(cwd, "worktree list", sEmpty, sEmpty, "-")>>,
                 ListRows(WorktreeListOutput(tr, cwd), 1, values.inactive_trees, raw))

List ==
    /\ UNCHANGED procs
    /\ \E cli \in Clis, raw \in BOOLEAN, o \in Spawns :
        \E r \in {Resolve(config, cli)} :
            /\ last' = IF r.panic
                       THEN Rec("list", cli, sEmpty, FALSE, "panic", "unwrap", sEmpty, <<>>, <<>>)
                       ELSE ListResult(dirs, trees, r.values, cli, raw, o)
            /\ UNCHANGED <<config, dirs, empties, trees>>

Next == Create \/ Archive \/ Update \/ List


Spec == Init /\ [][Next]_vars

\* The tool used from the start: each base path holds its base working
\* copy and nothing else, and nothing is archived.
InitClean ==
    /\ config = [repo |-> [n \in RepoNames |->
                             IF n = "A" THEN RepoConfig(sMain, sA, <<>>)
                                        ELSE RepoConfig(sMain, sB, <<>>)],
                 active_repo |-> "A"]
    /\ trees = [m \in {MainOf(sA), MainOf(sB)} |-> <<Wt(m, sMain)>>]
    /\ empties = {}
    /\ dirs = {sA, sB, MainOf(sA), MainOf(sB)}
    /\ last = Rec("none", NoCli, sEmpty, FALSE, "none", "none", sEmpty, <<>>, <<>>)
    /\ procs = NoProcs

SpecClean == InitClean /\ [][Next]_vars

---------------------------------------------------------------------------
(* set_active_repo, add_repo, delete_repo. main() resolves the values      *)
(* before it dispatches, for these commands as for the others.             *)

\* The repository names given to set-repo, add-repo and delete-repo: the
\* two of the initial config and one more.
RepoArgs == RepoNames \cup {"N"}

\* set_active_repo: the name is stored as it is given.
SetRepoResult(cfg, repo_name) == [cfg EXCEPT !.active_repo = repo_name]

SetRepo ==
    /\ UNCHANGED procs
    /\ \E cli \in Clis, repo_name \in RepoArgs :
        \E r \in {Resolve(config, cli)} :
            /\ IF r.panic
               THEN /\ config' = config
                    /\ last' = Rec("set-repo", cli, sEmpty, FALSE, "panic", "unwrap",
                                   sEmpty, <<>>, <<>>)
               ELSE /\ config' = SetRepoResult(config, repo_name)
                    /\ last' = Rec("set-repo", cli, sEmpty, FALSE, "ok", "set",
                                   sEmpty, <<>>, <<>>)
            /\ UNCHANGED <<dirs, empties, trees>>

\* add_repo: an error when the name is a key already, else a new entry with
\* no inactive trees.
AddRepoResult(cfg, repo_name, base_tree, base_path) ==
    IF repo_name \in DOMAIN cfg.repo
    THEN [config |-> cfg, result |-> "err", msg |-> "already_exists"]
    ELSE [config |-> [cfg EXCEPT !.repo = MapInsert(@, repo_name,
                                     RepoConfig(base_tree, base_path, <<>>))],
          result |-> "ok", msg |-> "added"]

AddRepo ==
    /\ UNCHANGED procs
    /\ \E cli \in Clis, repo_name \in RepoArgs, base_path \in {sA, sB} :
        \E r \in {Resolve(config, cli)} :
            /\ IF r.panic
               THEN /\ config' = config
                    /\ last' = Rec("add-repo", cli, sEmpty, FALSE, "panic", "unwrap",
                                   sEmpty, <<>>, <<>>)
               ELSE \E res \in {AddRepoResult(config, repo_name, sMain, base_path)} :
                        /\ config' = res.config
                        /\ last' = Rec("add-repo", cli, sEmpty, FALSE, res.result,
                                       res.msg, sEmpty, <<>>, <<>>)
            /\ UNCHANGED <<dirs, empties, trees>>

\* delete_repo: an error when the name is no key, else the entry is removed;
\* active_repo is not looked at.
DeleteRepoResult(cfg, repo_name) ==
    IF repo_name \notin DOMAIN cfg.repo
    THEN [config |-> cfg, result |-> "err", msg |-> "not_found"]
    ELSE [config |-> [cfg EXCEPT !.repo = [n \in (DOMAIN @) \ {repo_name} |-> @[n]]],
          result |-> "ok", msg |-> "deleted"]

DeleteRepo ==
    /\ UNCHANGED procs
    /\ \E cli \in Clis, repo_name \in RepoArgs :
        \E r \in {Resolve(config, cli)} :
            /\ IF r.panic
               THEN /\ config' = config
                    /\ last' = Rec("delete-repo", cli, sEmpty, FALSE, "panic", "unwrap",
                                   sEmpty, <<>>, <<>>)
               ELSE \E res \in {DeleteRepoResult(config, repo_name)} :
                        /\ config' = res.config
                        /\ last' = Rec("delete-repo", cli, sEmpty, FALSE, res.result,
                                       res.msg, sEmpty, <<>>, <<>>)
            /\ UNCHANGED <<dirs, empties, trees>>

NextRepos == SetRepo \/ AddRepo \/ DeleteRepo

SpecRepos == Init /\ [][NextRepos]_vars

---------------------------------------------------------------------------
(* Two invocations of `create <branch>` at the same time, without options  *)
(* and not dry runs. Nothing in the code locks the config file or the      *)
(* chosen path, so the steps of the two interleave freely: the load in     *)
(* main(), the pull, the branch command, the choice of the path with the   *)
(* look at it, the materialization command, the reload of the config and   *)
(* its write. Every subprocess can be spawned.                             *)

RaceBranches == {sFx, sGy}

\* Under /a the base working copy and the worktree tree1, which is archived.
RaceConfig0 ==
    [repo |-> [n \in RepoNames |->
                 IF n = "A" THEN RepoConfig(sMain, sA, <<Join(sA, sTree \o Digits(1))>>)
                            ELSE RepoConfig(sMain, sB, <<>>)],
     active_repo |-> "A"]

RaceTrees0 ==
    [m \in {MainOf(sA), MainOf(sB)} |->
        IF m = MainOf(sA) THEN <<Wt(m, sMain), Wt(Join(sA, sTree \o Digits(1)), sGy)>>
                          ELSE <<Wt(m, sMain)>>]

RaceDirs0 == {sA, sB, MainOf(sA), MainOf(sB), Join(sA, sTree \o Digits(1))}

InitRace ==
    /\ config = RaceConfig0
    /\ trees = RaceTrees0
    /\ dirs = RaceDirs0
    /\ empties = {}
    /\ last = Rec("none", NoCli, sEmpty, FALSE, "none", "none", sEmpty, <<>>, <<>>)
    /\ procs = [p \in Procs |-> [Idle EXCEPT !.pc = "start"]]

\* main(), lines 100-123: the values are read from the config file.
RaceLoad(p) ==
    /\ procs[p].pc = "start"
    /\ \E branch \in RaceBranches :
           procs' = [procs EXCEPT ![p] = [@ EXCEPT !.pc = "loaded", !.branch = branch,
                                             !.values = Resolve(config, NoCli).values]]
    /\ UNCHANGED <<config, dirs, empties, trees, last>>

\* Lines 248-252.
RacePull(p) ==
    /\ procs[p].pc = "loaded"
    /\ procs' = [procs EXCEPT ![p].pc = "pulled"]
    /\ UNCHANGED <<config, dirs, empties, trees, last>>

\* Lines 254-266.
RaceBranch(p) ==
    /\ procs[p].pc = "pulled"
    /\ procs' = [procs EXCEPT ![p].pc = "branched"]
    /\ UNCHANGED <<config, dirs, empties, trees, last>>

\* Lines 268-302: the path is chosen from the loaded values and the
\* directories as they are now, and the command is built.
RaceSelect(p) ==
    /\ procs[p].pc = "branched"
    /\ \E path \in {ChoosePath(procs[p].values, dirs)} :
           procs' = [procs EXCEPT ![p] =
                        [@ EXCEPT !.pc = "selected", !.path = path,
                                  !.cmd = WorktreeCmd(procs[p].values, path,
                                                      procs[p].branch, dirs, empties)]]
    /\ UNCHANGED <<config, dirs, empties, trees, last>>

\* Line 307: git runs the command; it refuses a worktree add at a path that
\* has come to exist since the command was built.
RaceRun(p) ==
    /\ procs[p].pc = "selected"
    /\ \E cmd \in {procs[p].cmd} :
         \E st \in {IF cmd.sub = "worktree add" /\ cmd.path \in dirs
                    THEN "fail" ELSE GitStatus(trees, cmd, "ok")} :
             /\ trees' = GitEffect(trees, cmd, st)
             /\ dirs' = IF st = "ok" /\ cmd.sub = "worktree add"
                        THEN dirs \cup {cmd.path} ELSE dirs
             /\ procs' = [procs EXCEPT ![p] = [@ EXCEPT !.pc = "ran", !.st = st]]
    /\ UNCHANGED <<config, empties, last>>

\* Lines 310-312: when the path is one of the loaded inactive trees, the
\* config is read back from the file.
RaceReload(p) ==
    /\ procs[p].pc = "ran"
    /\ procs' = IF VecContains(procs[p].values.inactive_trees, procs[p].path)
                THEN [procs EXCEPT ![p] = [@ EXCEPT !.pc = "reloaded", !.reloaded = config]]
                ELSE [procs EXCEPT ![p].pc = "done"]
    /\ UNCHANGED <<config, dirs, empties, trees, last>>

\* Lines 313-314: the loaded values, without their first inactive tree, are
\* put into the config read back, which is written to the file.
RaceWrite(p) ==
    /\ procs[p].pc = "reloaded"
    /\ config' = CreatePersist(procs[p].reloaded, procs[p].values, procs[p].path, FALSE)
    /\ procs' = [procs EXCEPT ![p].pc = "done"]
    /\ UNCHANGED <<dirs, empties, trees, last>>

NextRace ==
    \E p \in Procs :
        \/ RaceLoad(p)
        \/ RacePull(p)
        \/ RaceBranch(p)
        \/ RaceSelect(p)
        \/ RaceRun(p)
        \/ RaceReload(p)
        \/ RaceWrite(p)

SpecRace == InitRace /\ [][NextRace]_vars

---------------------------------------------------------------------------
(* The claims. A step of the tool is told by last', the record of the call *)
(* that made it; the values it worked on are those main() resolved from    *)
(* the config before the step.                                             *)

ValuesOf(cfg, cli) == Resolve(cfg, cli).values

\* The materialization command a Create ran: the last of its commands.
Mat(rec) == rec.cmds[Len(rec.cmds)]

Ran(rec, sub) == \E i \in 1..Len(rec.cmds) : rec.cmds[i].sub = sub

\* The paths the live listing of the repository with base working copy cwd
\* reports: the first field of each line.
ListedPaths(tr, cwd) ==
    LET lines == WorktreeListOutput(tr, cwd)
    IN  {split_whitespace(lines[i])[1] : i \in 1..Len(lines)}

InactiveOf(cfg, n) == cfg.repo[n].inactive_trees

\* The repository an invocation is for: the one named with -r, or the
\* active one.
KeyOf(cfg, cli) == IF cli.repo = None THEN cfg.active_repo ELSE cli.repo

\* C1: in every reachable state, every path in the inactive_trees of every
\* repository of the persisted config is a path that `git worktree list`
\* of that repository's base working copy reports.
C1_InactiveAreListed ==
    \A n \in DOMAIN config.repo :
        \A i \in 1..Len(InactiveOf(config, n)) :
            InactiveOf(config, n)[i] \in ListedPaths(trees, BaseDir(config.repo[n]))

\* An Archive invoked with -r X has just written under the active key A.
C1_Witness ==
    /\ last.op = "archive" /\ last.msg = "archived" /\ last.cli.repo = "X"
    /\ InactiveOf(config, "A") # <<>>

\* C2: a Create whose values have inactive trees chooses the first of them,
\* and when it is not a dry run and the materialization succeeded, the
\* persisted inactive trees of the repository it was invoked for are the
\* previous ones without the first, the others in their order.
C2_Step ==
    LET values == ValuesOf(config, last'.cli)
    IN  (last'.op = "create" /\ last'.result = "ok" /\ values.inactive_trees # <<>>)
        => /\ last'.path = values.inactive_trees[1]
           /\ (~last'.dry /\ Mat(last').status = "ok")
                => InactiveOf(config', KeyOf(config, last'.cli))
                     = Tail(values.inactive_trees)

C2_CreateTakesFirstInactive == [][C2_Step]_vars

\* C3: a dry-run Create, Archive or Update leaves the persisted config (and
\* the worktrees and directories) as they were and runs no branch,
\* worktree add or switch; a dry-run Create that gets through runs the pull
\* and nothing else, a dry-run Update runs nothing.
C3_Step ==
    (last'.dry /\ last'.op \in {"create", "archive", "update"})
    => /\ config' = config /\ trees' = trees /\ dirs' = dirs
       /\ ~Ran(last', "branch") /\ ~Ran(last', "worktree add")
       /\ ~Ran(last', "switch") /\ ~Ran(last', "")
       /\ (last'.op = "update" => last'.cmds = <<>>)
       /\ (last'.op = "create" /\ last'.result = "ok"
             => Len(last'.cmds) = 1 /\ last'.cmds[1].sub = "pull")

C4_Step ==
    /\ (/\ last'.op = "archive" /\ last'.cmds # <<>> /\ last'.path # sEmpty
        /\ VecContains(InactiveOf(config, config.active_repo), last'.path))
       => (last'.result = "ok" /\ last'.msg = "already_inactive" /\ config' = config)
    /\ (/\ last.op = "archive" /\ last.result = "ok"
        /\ last'.op = "archive" /\ last'.cli = last.cli
        /\ last'.branch = last.branch /\ last'.dry = last.dry)
       => config' = config

C4_ArchiveIdempotent == [][C4_Step]_vars

\* An Archive has found its path already inactive, right after an Archive
\* of the same branch.
C4_Witness ==
    /\ last.op = "archive" /\ last.msg = "already_inactive" /\ ~last.dry
    /\ VecContains(InactiveOf(config, config.active_repo), last.path)

\* C5: no repository's persisted inactive_trees holds the same path twice.
C5_NoDuplicates ==
    \A n \in DOMAIN config.repo :
        \A i, j \in 1..Len(InactiveOf(config, n)) :
            i # j => InactiveOf(config, n)[i] # InactiveOf(config, n)[j]

\* The rows of the worktrees of ws whose path is not in inactive, in order.
ActiveRows(ws, inactive, raw) ==
    LET act == SelectSeq(ws, LAMBDA w : \A k \in 1..Len(inactive) : inactive[k] # w.path)
    IN  [i \in 1..Len(act) |->
            IF raw THEN <<act[i].branch>>
                   ELSE <<act[i].path, <<"[">> \o act[i].branch \o <<"]">>>>]

\* C6: the listing prints exactly the registered worktrees whose path is
\* not among the inactive trees, in the order git lists them.
C6_ListShowsExactlyActive ==
    (last.op = "list" /\ last.result = "ok")
    => LET values == ValuesOf(config, last.cli)
       IN  last.out = ActiveRows(trees[RepoOf(trees, BaseDir(values))],
                                 values.inactive_trees, last.msg = "raw")

\* A listing has left out an inactive worktree and shown another.
C6_Witness ==
    /\ last.op = "list" /\ last.result = "ok" /\ last.out # <<>>
    /\ ValuesOf(config, last.cli).inactive_trees # <<>>
    /\ Len(last.out) < Len(trees[RepoOf(trees, BaseDir(ValuesOf(config, last.cli)))])

\* C7: a Create (not a dry run) whose values have no inactive trees chooses
\* base_path/tree<N>, N the number of directories under base_path, runs
\* worktree add of that path with the branch, and leaves the config as it
\* was.
C7_Step ==
    LET values == ValuesOf(config, last'.cli)
    IN  (/\ last'.op = "create" /\ last'.msg = "created"
         /\ values.inactive_trees = <<>>)
        => /\ last'.path = Join(values.base_path,
                                sTree \o Digits(DirCount(dirs, values.base_path)))
           /\ Mat(last').sub = "worktree add"
           /\ Mat(last').path = last'.path
           /\ Mat(last').branch = last'.branch
           /\ config' = config

C7_FreshSlotIsAdded == [][C7_Step]_vars

\* C8: a Create (not a dry run) whose chosen path is a directory with
\* entries runs a switch to the branch inside that path and no worktree
\* add; one whose chosen path does not exist runs worktree add of the path
\* and branch from the base working copy and no switch.
C8_Step ==
    LET values == ValuesOf(config, last'.cli)
        p      == last'.path
        mat    == Mat(last')
    IN  (last'.op = "create" /\ last'.msg = "created")
        => /\ (p \in dirs /\ p \notin empties)
                => /\ mat.sub = "switch" /\ mat.cwd = p /\ mat.branch = last'.branch
                   /\ ~Ran(last', "worktree add")
           /\ p \notin dirs
                => /\ mat.sub = "worktree add" /\ mat.path = p
                   /\ mat.branch = last'.branch /\ mat.cwd = BaseDir(values)
                   /\ ~Ran(last', "switch")

C8_Materialization == [][C8_Step]_vars

\* A Create has added a worktree at a path that did not exist.
C8_Witness ==
    /\ last.op = "create" /\ last.msg = "created"
    /\ Mat(last).sub = "worktree add" /\ Mat(last).status = "ok"
    /\ last.path \in dirs

\* C9: an Archive whose branch name occurs in no line of the listing
\* reports does-not-exist, returns Ok and leaves the config unchanged.
C9_Step ==
    (last'.op = "archive" /\ last'.cmds # <<>>)
    => \A lines \in {WorktreeListOutput(trees, BaseDir(ValuesOf(config, last'.cli)))} :
           (\A i \in 1..Len(lines) : ~StrContains(lines[i], last'.branch))
           => (last'.result = "ok" /\ last'.msg = "does_not_exist" /\ config' = config)

C9_ArchiveUnknownBranch == [][C9_Step]_vars

\* An Archive has reported that no worktree has the branch, in a repository
\* that has worktrees.
C9_Witness ==
    /\ last.op = "archive" /\ last.msg = "does_not_exist" /\ ~last.dry
    /\ Len(WorktreeListOutput(trees, BaseDir(ValuesOf(config, last.cli)))) > 0

\* C10: a Create (not a dry run) that chose the first inactive tree and
\* whose materialization command ended with a non-zero status leaves the
\* persisted inactive trees of the repository it was invoked for unchanged.
C10_Step ==
    (/\ last'.op = "create" /\ last'.msg = "created"
     /\ ValuesOf(config, last'.cli).inactive_trees # <<>>
     /\ Mat(last').status = "fail")
    => InactiveOf(config', KeyOf(config, last'.cli))
         = InactiveOf(config, KeyOf(config, last'.cli))

C10_FailedCreateKeepsSlot == [][C10_Step]_vars

\* C11: a non-dry-run Create or Archive changes nothing in the persisted
\* config beside the inactive_trees of the repository it was invoked for:
\* active_repo, the keys, every base_tree and base_path and every other
\* repository's entry stay, and an Archive that archived leaves that
\* repository's previous inactive_trees with the path appended.
C11_Step ==
    (last'.op \in {"create", "archive"} /\ ~last'.dry /\ last'.result = "ok")
    => \A k \in {KeyOf(config, last'.cli)} :
           /\ config'.active_repo = config.active_repo
           /\ DOMAIN config'.repo = DOMAIN config.repo
           /\ \A n \in DOMAIN config.repo :
                  /\ config'.repo[n].base_tree = config.repo[n].base_tree
                  /\ config'.repo[n].base_path = config.repo[n].base_path
                  /\ n # k => config'.repo[n] = config.repo[n]
           /\ last'.msg = "archived"
                => InactiveOf(config', k) = Append(InactiveOf(config, k), last'.path)

C11_OnlyInactiveOfInvokedRepo == [][C11_Step]_vars

\* The steps of a Create at which a subprocess is spawned, given the
\* answers run: the pull always, the branch and the materialization command
\* outside dry-run.
SpawnFails(dry, run) ==
    \/ run.pull = "nospawn"
    \/ ~dry /\ run.branch = "nospawn"
    \/ ~dry /\ run.tree = "nospawn"

\* C12: in every reachable state, a Create, Archive or Update one of whose
\* subprocesses cannot be spawned returns an error and leaves the persisted
\* config as it was.
C12_SpawnFailureIsError ==
    \A cli \in Clis :
        \A r \in {Resolve(config, cli)} :
            ~r.panic =>
                /\ \A branch \in Branches, dry \in BOOLEAN, run \in Runs :
                       SpawnFails(dry, run) =>
                           \A res \in {CreateResult(config, dirs, empties, trees,
                                                    r.values, cli, branch, dry, run)} :
                               res.last.result = "err" /\ res.config = config
                /\ \A branch \in Branches, dry \in BOOLEAN :
                       \A res \in {ArchiveResult(config, dirs, trees, r.values,
                                                 cli, branch, dry, "nospawn")} :
                           res.last.result = "err" /\ res.config = config
                /\ UpdateResult(r.values, cli, FALSE, "nospawn").result = "err"

\* A Create whose materialization command could not be spawned, after the
\* pull and the branch command ran, has ended with the slot still inactive.
C12_Witness ==
    /\ last.op = "create" /\ last.result = "err" /\ last.msg = "spawn"
    /\ Len(last.cmds) = 2
    /\ VecContains(ValuesOf(config, last.cli).inactive_trees, last.path)

\* C13: the inactive_trees of the repository an invocation is for are a
\* queue: an Archive that archived has put its path at the end, behind the
\* paths that were there, a Create that reused a slot took the first and
\* left the others in their order, and no step changes the list otherwise.
C13_Step ==
    (last'.op \in {"create", "archive"} /\ last'.result = "ok")
    => \A k \in {KeyOf(config, last'.cli)} :
           \A old \in {InactiveOf(config, k)}, new \in {InactiveOf(config', k)} :
               /\ last'.msg = "archived" => new = Append(old, last'.path)
               /\ (last'.msg = "created" /\ old # <<>> /\ Mat(last').status = "ok")
                    => last'.path = old[1] /\ new = Tail(old)
               /\ last'.msg \notin {"archived", "created"} => new = old

C13_ReuseInArchivalOrder == [][C13_Step]_vars

\* C15: the base working copy of a repository is never one of its inactive
\* trees, and no Create runs a switch inside a base working copy.
C15_BaseNeverArchived ==
    /\ \A n \in DOMAIN config.repo :
           ~VecContains(InactiveOf(config, n), BaseDir(config.repo[n]))
    /\ (last.op = "create" /\ last.cmds # <<>> /\ Mat(last).sub = "switch")
         => \A n \in DOMAIN config.repo : Mat(last).cwd # BaseDir(config.repo[n])

\* The commands of a call that materialize a worktree.
MatCount(rec) ==
    Cardinality({i \in 1..Len(rec.cmds) : rec.cmds[i].sub \in {"switch", "worktree add"}})

\* C17: a Create (not a dry run) that got to its materialization command
\* ran exactly one switch or worktree add, naming the branch, and no git
\* without a subcommand (so no slot leaves inactive_trees without one).
C17_Step ==
    (last'.op = "create" /\ last'.msg = "created")
    => /\ MatCount(last') = 1
       /\ Mat(last').sub \in {"switch", "worktree add"}
       /\ Mat(last').branch = last'.branch
       /\ ~Ran(last', "")

C17_OneMaterialization == [][C17_Step]_vars

\* C18: when the directories under a base path are the base working copy
\* and those this tool created, a Create (not a dry run) whose values have
\* no inactive trees chooses a path that does not exist yet and runs
\* worktree add for it, never a switch.
C18_Step ==
    (/\ last'.op = "create" /\ last'.msg = "created"
     /\ ValuesOf(config, last'.cli).inactive_trees = <<>>)
    => /\ last'.path \notin dirs
       /\ Mat(last').sub = "worktree add"
       /\ ~Ran(last', "switch")

C18_FreshPathIsNew == [][C18_Step]_vars

\* With /a/tree1 made by an earlier Create, a Create has chosen /a/tree2,
\* which did not exist, and has run worktree add for it.
C18_Witness ==
    /\ last.op = "create" /\ last.msg = "created" /\ last.cli.repo = None
    /\ ValuesOf(config, last.cli).inactive_trees = <<>>
    /\ last.path = Join(sA, sTree \o Digits(2))
    /\ Mat(last).sub = "worktree add" /\ Mat(last).path = last.path
    /\ Join(sA, sTree \o Digits(1)) \in dirs

\* C16: in every state reached by set-repo, add-repo and delete-repo from a
\* valid config, active_repo is a key of the repositories.
C16_ActiveRepoIsKey == config.active_repo \in DOMAIN config.repo

\* The two Creates run one after the other from the initial state of the
\* race, the one for branch b1 first: the two calls' results.
SeqRuns(b1, b2) ==
    LET ok == Run("ok", "ok", "ok")
        r1 == CreateResult(RaceConfig0, RaceDirs0, {}, RaceTrees0,
                           Resolve(RaceConfig0, NoCli).values, NoCli, b1, FALSE, ok)
        r2 == CreateResult(r1.config, r1.dirs, {}, r1.trees,
                           Resolve(r1.config, NoCli).values, NoCli, b2, FALSE, ok)
    IN  <<r1, r2>>

SeqFinal(b1, b2) ==
    [config |-> SeqRuns(b1, b2)[2].config, dirs |-> SeqRuns(b1, b2)[2].dirs,
     trees |-> SeqRuns(b1, b2)[2].trees]

\* Both invocations have ended, each having switched the archived slot
\* /a/tree1 to its own branch.
RaceSameSlot ==
    /\ \A p \in Procs : procs[p].pc = "done" /\ procs[p].st = "ok"
    /\ procs[1].path = procs[2].path
    /\ procs[1].path = RaceConfig0.repo["A"].inactive_trees[1]
    /\ procs[1].cmd.sub = "switch" /\ procs[2].cmd.sub = "switch"
    /\ procs[1].branch # procs[2].branch

\* C14: when two Creates for different branches have both materialized
\* into the same archived slot, the state they leave is not the one either
\* sequential order of the two leaves; and in both sequential orders the
\* two Creates choose different paths.
C14_RaceDiffersFromSequential ==
    RaceSameSlot
    => \A order \in {<<procs[1].branch, procs[2].branch>>,
                     <<procs[2].branch, procs[1].branch>>} :
           /\ [config |-> config, dirs |-> dirs, trees |-> trees]
                # SeqFinal(order[1], order[2])
           /\ SeqRuns(order[1], order[2])[1].last.path
                # SeqRuns(order[1], order[2])[2].last.path

\* The race has happened: both invocations ended in the same slot, and only
\* the worktrees of the start are registered.
C14_Witness ==
    /\ RaceSameSlot
    /\ Len(trees[MainOf(sA)]) = 2
    /\ InactiveOf(config, "A") = <<>>

============================================================================
